---- MODULE Spec2Model ----
(***************************************************************************)
(* A model of pyresttest's request execution engine:                       *)
(*   retry.py              RetryConfig, should_retry, retry_sync/async     *)
(*   performance.py        run_single_http_test, run_performance_test      *)
(*   performance_async.py  async_single_request, run_async_performance     *)
(*                                                                         *)
(* Four specifications share the definitions below:                        *)
(*   SpecPolicy  the pure functions of RetryConfig                         *)
(*   SpecRequest one call of retry_sync / retry_async, or of               *)
(*               run_single_http_test / async_single_request               *)
(*   Spec        one dispatch of run_performance_test (sync or async)      *)
(*   SpecSummary the statistics either dispatcher computes from a record   *)
(*               list                                                      *)
(*                                                                         *)
(* Durations (backoff_base, backoff_max, delays) are counted in whole      *)
(* ticks; the code multiplies by powers of two and takes a minimum, which  *)
(* is exact on such values.                                                *)
(***************************************************************************)
EXTENDS Integers, Sequences, FiniteSets, TLC

VARIABLES
    policy,     \* SpecPolicy: a RetryConfig and the last two method calls on it
    call,       \* SpecRequest: the arguments of the function running
    req,        \* SpecRequest: the frame (locals) of the function running
    log,        \* SpecRequest: the calls, outcomes and sleeps so far
    run,        \* Spec: the arguments of run_performance_test
    tasks,      \* Spec: per logical request, the frame of its worker/task
    slots,      \* Spec: idle pool workers (sync) or the semaphore's value (async)
    done_q,     \* Spec: futures/tasks completed and not yet yielded, oldest first
    first_batch,\* Spec: futures already done when as_completed was called
    results,    \* Spec: the `results` list of the dispatcher
    mainpc,     \* Spec: position of the dispatching thread / coroutine
    seen,       \* Spec: per logical request, what its latest attempt met
    stats,      \* Spec: executor invocations, HTTP requests issued, requests sent
    summary,    \* Spec: the `summary` dict of the dispatcher
    returned,   \* Spec: which object run_performance_test has returned
    stat        \* SpecSummary: a record list and the summary computed from it

vars == <<policy, call, req, log, run, tasks, slots, done_q, first_batch,
          results, mainpc, seen, stats, summary, returned, stat>>

policyVars == <<policy>>
requestVars == <<call, req, log>>
dispatchVars ==
    <<run, tasks, slots, done_q, first_batch, results, mainpc, seen, stats,
      summary, returned>>
statVars == <<stat>>

-----------------------------------------------------------------------------
(* Bounds of the model *)

MaxRetries == 2         \* max_retries ranges over -1..MaxRetries
MaxBase == 3            \* backoff_base ranges over 0..MaxBase
MaxBackoffMax == 10     \* backoff_max ranges over 0..MaxBackoffMax
MaxAttempt == 5         \* get_backoff_delay is called with 0..MaxAttempt
MaxRepeat == 2          \* performance.repeat ranges over 0..MaxRepeat
MaxConcurrency == 2     \* concurrency ranges over 1..MaxConcurrency
MaxDispatchRetries == 1 \* max_retries of the retry policy of a dispatch

-----------------------------------------------------------------------------
(* Values *)

Min(a, b) == IF a <= b THEN a ELSE b

\* An optional argument: None, or a given value.
None == [given |-> FALSE, value |-> {}]
Some(v) == [given |-> TRUE, value |-> v]

OrDefault_none_only(x, default) == IF x.given THEN x.value ELSE default

\* Python's `x or default` on an optional collection: None and the empty
\* collection are both falsy.
OrDefault(x, default) == IF x.given /\ x.value # {} THEN x.value ELSE default

\* HTTP statuses the modelled server can answer with.
Statuses == {200, 404, 429, 500, 503}

\* Exception types a call can raise.  RequestException is the base class of
\* the errors of the `requests` transport; it is unrelated to the builtin
\* ConnectionError and TimeoutError.
ExcTypes == {"ConnectionError", "TimeoutError", "RequestException", "ValueError"}

-----------------------------------------------------------------------------
(* retry.py: RetryConfig *)

DefaultRetryStatuses == {500, 502, 503, 504}
DefaultRetryExceptions == {"ConnectionError", "TimeoutError"}

\* RetryConfig.__init__
RetryConfig(max_retries, backoff_base, backoff_max, retry_statuses, retry_exceptions) ==
    [max_retries      |-> max_retries,
     backoff_base     |-> backoff_base,
     backoff_max      |-> backoff_max,
     retry_statuses   |-> OrDefault(retry_statuses, DefaultRetryStatuses),
     retry_exceptions |-> OrDefault(retry_exceptions, DefaultRetryExceptions)]

get_backoff_delay_zero_first(self, attempt) ==
    Min(self.backoff_base * ((2 ^ attempt) - 1), self.backoff_max)

get_backoff_delay_uncapped(self, attempt) ==
    self.backoff_base * (2 ^ attempt)

\* RetryConfig.get_backoff_delay
get_backoff_delay(self, attempt) ==
    LET delay == self.backoff_base * (2 ^ attempt)
    IN  Min(delay, self.backoff_max)

should_retry_defaults_kept(status_code, config) ==
    status_code \in (config.retry_statuses \cup DefaultRetryStatuses)

\* should_retry
should_retry(status_code, config) ==
    status_code \in config.retry_statuses

-----------------------------------------------------------------------------
(* SpecPolicy: a RetryConfig is constructed, then its pure functions are    *)
(* called with arguments from bounded sets.                                 *)

StatusArgs == {None, Some({}), Some({429, 503}), Some({500})}
ExceptionArgs == {None, Some({}), Some({"ValueError"})}

NoPolicy == [op |-> "none"]
NoCall == [fn |-> "none"]
NoReq == [pc |-> "none"]
NoRun == [mode |-> "none"]
NoSummary == [total |-> -1]
NoStat == [op |-> "none"]

RequestIdle == call = NoCall /\ req = NoReq /\ log = <<>>
DispatchIdle ==
    /\ run = NoRun /\ tasks = <<>> /\ slots = 0 /\ done_q = <<>>
    /\ first_batch = {} /\ results = <<>> /\ mainpc = "none" /\ seen = <<>>
    /\ stats = [invoked |-> 0, issued |-> 0, sent |-> {}]
    /\ summary = NoSummary
    /\ returned = "nothing"
StatIdle == stat = NoStat

PolicyInit ==
    /\ \E b \in 0..MaxBase, m \in 0..MaxBackoffMax, rs \in StatusArgs :
         policy = [op |-> "init",
                   statuses_arg |-> rs,
                   config |-> RetryConfig(3, b, m, rs, None),
                   arg |-> 0, delay |-> 0, retry |-> FALSE,
                   prev_attempt |-> -1, prev_delay |-> 0]
    /\ RequestIdle
    /\ DispatchIdle
    /\ StatIdle

CallGetBackoffDelay ==
    /\ policy.op # "none"
    /\ \E attempt \in 0..MaxAttempt :
         policy' = [policy EXCEPT !.op = "get_backoff_delay", !.arg = attempt,
                       !.delay = get_backoff_delay(policy.config, attempt),
                       !.prev_attempt = IF policy.op = "get_backoff_delay"
                                        THEN policy.arg ELSE -1,
                       !.prev_delay = IF policy.op = "get_backoff_delay"
                                      THEN policy.delay ELSE 0]
    /\ UNCHANGED <<requestVars, dispatchVars, statVars>>

CallShouldRetry ==
    /\ policy.op # "none"
    /\ \E code \in Statuses :
         policy' = [policy EXCEPT !.op = "should_retry", !.arg = code,
                       !.retry = should_retry(code, policy.config)]
    /\ UNCHANGED <<requestVars, dispatchVars, statVars>>

PolicyNext == CallGetBackoffDelay \/ CallShouldRetry

SpecPolicy == PolicyInit /\ [][PolicyNext]_vars

-----------------------------------------------------------------------------
(* What one call of the wrapped function / the HTTP transport can do *)

\* A response object.  `attr` names the attribute that carries its status:
\* "status_code" (requests), "status" (aiohttp).
Resp(attr, status) == [kind |-> "resp", attr |-> attr, status |-> status, exc |-> ""]
\* A raised exception of type `exc`.
Exc(exc) == [kind |-> "exc", attr |-> "", status |-> 0, exc |-> exc]
\* Python's None.
NoOutcome == [kind |-> "none", attr |-> "", status |-> 0, exc |-> ""]

Responses == {Resp(a, s) : a \in {"status_code", "status"}, s \in Statuses}
Exceptions == {Exc(e) : e \in ExcTypes}

\* Entries of the log.
Called == [ev |-> "call", out |-> NoOutcome, delay |-> 0, n |-> 0]
Returned(response) == [ev |-> "return", out |-> response, delay |-> 0, n |-> 0]
Raised(e) == [ev |-> "raise", out |-> e, delay |-> 0, n |-> 0]
Slept(delay) == [ev |-> "sleep", out |-> NoOutcome, delay |-> delay, n |-> 0]
\* The validators ran on `response`; n of them were evaluated.
Validated(response, n) == [ev |-> "validate", out |-> response, delay |-> 0, n |-> n]
\* An outcome that came d ticks after its call.
Took(outcome, d) == [outcome EXCEPT !.delay = d]

-----------------------------------------------------------------------------
(* retry.py: retry_sync and retry_async.  The two functions have the same   *)
(* control flow; they differ in the attribute they read the status from     *)
(* and in the sleep they use.                                               *)

\* The attribute hasattr() looks for.
StatusAttr(fn) == IF fn = "retry_sync" THEN "status_code" ELSE "status"

\* last_exception = None; last_response = None
retry_frame ==
    [pc |-> "start", attempt |-> 0, delay |-> 0,
     last_response |-> NoOutcome, last_exception |-> NoOutcome,
     result |-> NoOutcome]

\* The code after the loop: return last_response, raise last_exception, or
\* fall off the end of the function (which returns None).
retry_after_loop(f) ==
    IF f.last_response # NoOutcome
    THEN [f EXCEPT !.pc = "returned", !.result = f.last_response]
    ELSE IF f.last_exception # NoOutcome
    THEN [f EXCEPT !.pc = "raised", !.result = f.last_exception]
    ELSE [f EXCEPT !.pc = "returned", !.result = NoOutcome]

retry_loop_one_short(config, f, attempt) ==
    IF attempt < config.max_retries
    THEN [f EXCEPT !.pc = "call", !.attempt = attempt]
    ELSE retry_after_loop(f)

\* `for attempt in range(config.max_retries + 1)`: the next iteration calls
\* func, an exhausted range leaves the loop.
retry_loop(config, f, attempt) ==
    IF attempt < config.max_retries + 1
    THEN [f EXCEPT !.pc = "call", !.attempt = attempt]
    ELSE retry_after_loop(f)

retry_on_return_no_sleep(fn, config, f, response) ==
    LET f1 == [f EXCEPT !.last_response = response]
    IN  IF /\ response.attr = StatusAttr(fn)
           /\ should_retry(response.status, config)
           /\ f.attempt < config.max_retries
        THEN retry_loop(config, f1, f.attempt + 1)
        ELSE [f1 EXCEPT !.pc = "returned", !.result = response]

\* func returned `response`.
retry_on_return(fn, config, f, response) ==
    LET f1 == [f EXCEPT !.last_response = response]
    IN  IF /\ response.attr = StatusAttr(fn)
           /\ should_retry(response.status, config)
           /\ f.attempt < config.max_retries
        THEN [f1 EXCEPT !.pc = "sleep",
                        !.delay = get_backoff_delay(config, f.attempt)]
        ELSE [f1 EXCEPT !.pc = "returned", !.result = response]

retry_on_raise_swallowed(config, f, e) ==
    IF e.exc \in config.retry_exceptions
    THEN LET f1 == [f EXCEPT !.last_exception = e]
         IN  IF f.attempt < config.max_retries
             THEN [f1 EXCEPT !.pc = "sleep",
                             !.delay = get_backoff_delay(config, f.attempt)]
             ELSE [f1 EXCEPT !.pc = "returned", !.result = f.last_response]
    ELSE [f EXCEPT !.pc = "raised", !.result = e]

retry_on_raise_to_fallback(config, f, e) ==
    IF e.exc \in config.retry_exceptions
    THEN LET f1 == [f EXCEPT !.last_exception = e]
         IN  IF f.attempt < config.max_retries
             THEN [f1 EXCEPT !.pc = "sleep",
                             !.delay = get_backoff_delay(config, f.attempt)]
             ELSE retry_after_loop(f1)
    ELSE [f EXCEPT !.pc = "raised", !.result = e]

\* func raised `e`: `except config.retry_exceptions` catches the listed
\* types, any other exception leaves retry_sync at once.
retry_on_raise(config, f, e) ==
    IF e.exc \in config.retry_exceptions
    THEN LET f1 == [f EXCEPT !.last_exception = e]
         IN  IF f.attempt < config.max_retries
             THEN [f1 EXCEPT !.pc = "sleep",
                             !.delay = get_backoff_delay(config, f.attempt)]
             ELSE [f1 EXCEPT !.pc = "raised", !.result = e]
    ELSE [f EXCEPT !.pc = "raised", !.result = e]

\* time.sleep(delay) / await asyncio.sleep(delay) is over.
retry_wake(config, f) == retry_loop(config, f, f.attempt + 1)

-----------------------------------------------------------------------------
(* The test definition, as far as the executors read it *)

\* The parts of a test that make its HTTP request.  An attribute holds None
\* (the empty set here) or one value (a singleton); a headers dict is known
\* by its text, "{}" being the empty dict, and a body is a string.
PyNone == {}
upper(method) == IF method = "get" THEN "GET" ELSE method

make_request_body_once(fn, test, f) ==
    [method  |-> upper(test.method),
     url     |-> test.url,
     headers |-> test.headers,
     data    |-> IF f.attempt = 0 THEN test.body ELSE PyNone]

\* What make_request() of either executor hands to session.request on each
\* attempt of frame f: the locals set once on entry.  run_single_http_test
\* sets method = test.method.upper(), headers = test.headers or {} and
\* body = test.body or None; async_single_request takes headers and body as
\* they are.
make_request(fn, test, f) ==
    IF fn = "run_single_http_test"
    THEN [method  |-> upper(test.method),
          url     |-> test.url,
          headers |-> IF test.headers \subseteq {"{}"} THEN {"{}"} ELSE test.headers,
          data    |-> IF test.body \subseteq {""} THEN PyNone ELSE test.body]
    ELSE [method  |-> upper(test.method),
          url     |-> test.url,
          headers |-> test.headers,
          data    |-> test.body]

\* A validator is known by what validate(response, context) does:
\*   "T" returns True, "F" returns False, "Is200" returns whether the
\*   response's status is 200, "X" raises.
ValidatorKinds == {"T", "F", "Is200", "X"}

Verdict(kind, response) ==
    CASE kind = "T" -> "true"
      [] kind = "F" -> "false"
      [] kind = "Is200" -> IF response.status = 200 THEN "true" ELSE "false"
      [] OTHER -> "raise"

\* getattr(test, 'expected_status', [200])
ExpectedStatus(test) ==
    IF test.expected_status.given THEN test.expected_status.value ELSE {200}

\* The record an executor returns (a dict in performance.py, an
\* AsyncPerformanceResult in performance_async.py).
Record(status, passed, elapsed_ms, retries) ==
    [status |-> status, passed |-> passed, elapsed_ms |-> elapsed_ms,
     retries |-> retries]
NoRecord == Record(-1, FALSE, 0, 0)

\* retries_attempted = 0; start = time.time(); no result yet.  `now` is what
\* time.time() reads, counted in ticks from the entry of the function.
exec_frame ==
    [pc |-> "start", looping |-> FALSE, attempt |-> 0, retries_attempted |-> 0,
     delay |-> 0, validated |-> 0, result |-> NoRecord, error |-> NoOutcome,
     now |-> 0, start |-> 0]

\* The function was blocked for d ticks, in make_request() or in a sleep.
blocked(f, d) == [f EXCEPT !.now = f.now + d]

\* (time.time() - start) * 1000
read_timer(f) == f.now - f.start

\* `if retry_config and retry_config.max_retries > 0`
UsesRetry(retry_config) ==
    retry_config.given /\ retry_config.value.max_retries > 0

\* Entering either executor: the first request is issued, inside the retry
\* loop or as the single attempt of the else branch.
exec_begin(retry_config, f) ==
    [f EXCEPT !.pc = "call", !.looping = UsesRetry(retry_config), !.attempt = 0]

exec_wake_timer_kept(retry_config, f) ==
    LET woken == blocked(f, f.delay)
    IN  IF f.attempt + 1 < retry_config.value.max_retries + 1
        THEN [woken EXCEPT !.pc = "call", !.attempt = f.attempt + 1]
        ELSE [woken EXCEPT !.pc = "raised", !.error = Exc("UnboundLocalError")]

exec_wake_lagging(retry_config, f) ==
    [blocked(f, f.delay) EXCEPT
        !.pc = "call", !.start = f.now + f.delay,
        !.attempt = IF f.retries_attempted > 1 THEN f.attempt + 1 ELSE f.attempt]

\* The backoff sleep of f.delay is over: `start = time.time()`, then the next
\* iteration of `for attempt in range(retry_config.max_retries + 1)`.
exec_wake(retry_config, f) ==
    LET woken == [blocked(f, f.delay) EXCEPT !.start = f.now + f.delay]
    IN  IF f.attempt + 1 < retry_config.value.max_retries + 1
        THEN [woken EXCEPT !.pc = "call", !.attempt = f.attempt + 1]
        ELSE [woken EXCEPT !.pc = "raised", !.error = Exc("UnboundLocalError")]

-----------------------------------------------------------------------------
(* performance.py: run_single_http_test *)

\* The validator loop: the index of the first validator that does not
\* return True, or 0.
FirstStop(validators, response) ==
    LET stop == {i \in 1..Len(validators) : Verdict(validators[i], response) # "true"}
    IN  IF stop = {} THEN 0 ELSE CHOOSE i \in stop : \A j \in stop : i <= j

run_validators(test, response) ==
    LET stop == FirstStop(test.validators, response)
    IN  [evaluated |-> IF stop = 0 THEN Len(test.validators) ELSE stop,
         outcome   |-> IF stop = 0 THEN "passed"
                       ELSE IF Verdict(test.validators[stop], response) = "false"
                       THEN "failed" ELSE "raised"]

\* The code after the loop: validators, then the record.
sync_finish(test, f, response) ==
    LET v == run_validators(test, response)
    IN  IF v.outcome = "raised"
        THEN [f EXCEPT !.pc = "raised", !.validated = v.evaluated,
                       !.error = Exc("ValidatorError")]
        ELSE [f EXCEPT !.pc = "returned", !.validated = v.evaluated,
                       !.result = Record(response.status, v.outcome = "passed",
                                         read_timer(f), f.retries_attempted)]

sync_on_return_retry_last(test, retry_config, f, response) ==
    IF /\ retry_config.given
       /\ response.status \in retry_config.value.retry_statuses
       /\ f.attempt <= retry_config.value.max_retries
    THEN [f EXCEPT !.pc = "sleep",
                   !.delay = get_backoff_delay(retry_config.value, f.attempt),
                   !.retries_attempted = f.retries_attempted + 1]
    ELSE sync_finish(test, f, response)

\* make_request() returned `response`.
sync_on_return(test, retry_config, f, response) ==
    IF /\ f.looping
       /\ response.status \in retry_config.value.retry_statuses
       /\ f.attempt < retry_config.value.max_retries
    THEN [f EXCEPT !.pc = "sleep",
                   !.delay = get_backoff_delay(retry_config.value, f.attempt),
                   !.retries_attempted = f.retries_attempted + 1]
    ELSE sync_finish(test, f, response)

\* make_request() raised `e`: only requests.exceptions.RequestException is
\* caught, and only inside the retry loop.
sync_on_raise(retry_config, f, e) ==
    IF f.looping /\ e.exc = "RequestException"
                 /\ f.attempt < retry_config.value.max_retries
    THEN [f EXCEPT !.pc = "sleep",
                   !.delay = get_backoff_delay(retry_config.value, f.attempt),
                   !.retries_attempted = f.retries_attempted + 1]
    ELSE [f EXCEPT !.pc = "raised", !.error = e]

-----------------------------------------------------------------------------
(* performance_async.py: async_single_request *)

\* make_request() returned `resp`.
async_on_return(test, retry_config, f, resp) ==
    IF /\ f.looping
       /\ resp.status \in retry_config.value.retry_statuses
       /\ f.attempt < retry_config.value.max_retries
    THEN [f EXCEPT !.pc = "sleep",
                   !.delay = get_backoff_delay(retry_config.value, f.attempt),
                   !.retries_attempted = f.retries_attempted + 1]
    ELSE [f EXCEPT !.pc = "returned",
                   !.result = Record(resp.status,
                                     resp.status \in ExpectedStatus(test),
                                     read_timer(f),
                                     IF f.looping THEN f.retries_attempted ELSE 0)]

\* make_request() raised `e`: `except Exception` catches it in both branches.
async_on_raise(retry_config, f, e) ==
    IF f.looping /\ f.attempt < retry_config.value.max_retries
    THEN [f EXCEPT !.pc = "sleep",
                   !.delay = get_backoff_delay(retry_config.value, f.attempt),
                   !.retries_attempted = f.retries_attempted + 1]
    ELSE [f EXCEPT !.pc = "returned",
                   !.result = Record(0, FALSE, read_timer(f),
                                     IF f.looping THEN f.retries_attempted ELSE 0)]

-----------------------------------------------------------------------------
(* SpecRequest: one call of one of the four functions that run a logical    *)
(* request, the wrapped function / the transport answering each attempt     *)
(* with any response or exception.                                          *)

BackoffArgs == {<<1, 10>>, <<3, 4>>}
ExpectedArgs == {None, Some({200, 500})}
ValidatorLists == {<<>>, <<"T">>, <<"Is200", "T">>, <<"F", "X">>, <<"T", "X">>}

RetryFns == {"retry_sync", "retry_async"}
ExecFns == {"run_single_http_test", "async_single_request"}

\* The transport of each executor: requests answers with status_code,
\* aiohttp with status.
TransportAttr(fn) == IF fn = "run_single_http_test" THEN "status_code" ELSE "status"
TransportResponses(fn) == {Resp(TransportAttr(fn), s) : s \in Statuses}
TransportErrors == {Exc("RequestException"), Exc("ValueError")}
\* How long one make_request() can take, in ticks.
Durations == {1, 2}

PolicyIdle == policy = NoPolicy

\* The log grows by "call" when the frame has just issued a request, by
\* "sleep" when it has just begun a backoff sleep.
LogCall(f) == IF f.pc = "call" THEN <<Called>> ELSE <<>>
LogSleep(f) == IF f.pc = "sleep" THEN <<Slept(f.delay)>> ELSE <<>>
LogValidate(f, response) ==
    IF f.pc # "sleep" /\ call.fn = "run_single_http_test"
    THEN <<Validated(response, f.validated)>> ELSE <<>>

RetryCallInit ==
    \E fn \in RetryFns, mr \in -1..MaxRetries, b \in BackoffArgs,
       rs \in StatusArgs, re \in ExceptionArgs :
         /\ call = [fn |-> fn,
                    statuses_arg |-> rs,
                    exceptions_arg |-> re,
                    config |-> RetryConfig(mr, b[1], b[2], rs, re)]
         /\ req = retry_frame

ExecCallInit ==
    \E fn \in ExecFns, ex \in ExpectedArgs, vs \in ValidatorLists,
       rc \in {None} \cup {Some(RetryConfig(mr, b[1], b[2], rs, None)) :
                              mr \in -1..MaxRetries, b \in BackoffArgs,
                              rs \in {None, Some({429, 503})}} :
         /\ call = [fn |-> fn,
                    test |-> [expected_status |-> ex, validators |-> vs],
                    retry_config |-> rc]
         /\ req = exec_frame

RequestInit ==
    /\ RetryCallInit \/ ExecCallInit
    /\ log = <<>>
    /\ PolicyIdle
    /\ DispatchIdle
    /\ StatIdle

RetryEnter ==
    /\ call.fn \in RetryFns
    /\ req.pc = "start"
    /\ req' = retry_loop(call.config, req, 0)
    /\ log' = log \o LogCall(req')
    /\ UNCHANGED <<call, policyVars, dispatchVars, statVars>>

RetryFuncReturns ==
    /\ call.fn \in RetryFns
    /\ req.pc = "call"
    /\ \E response \in Responses :
         /\ req' = retry_on_return(call.fn, call.config, req, response)
         /\ log' = log \o <<Returned(response)>> \o LogSleep(req')
    /\ UNCHANGED <<call, policyVars, dispatchVars, statVars>>

RetryFuncRaises ==
    /\ call.fn \in RetryFns
    /\ req.pc = "call"
    /\ \E e \in Exceptions :
         /\ req' = retry_on_raise(call.config, req, e)
         /\ log' = log \o <<Raised(e)>> \o LogSleep(req')
    /\ UNCHANGED <<call, policyVars, dispatchVars, statVars>>

RetryWake ==
    /\ call.fn \in RetryFns
    /\ req.pc = "sleep"
    /\ req' = retry_wake(call.config, req)
    /\ log' = log \o LogCall(req')
    /\ UNCHANGED <<call, policyVars, dispatchVars, statVars>>

ExecEnter ==
    /\ call.fn \in ExecFns
    /\ req.pc = "start"
    /\ req' = exec_begin(call.retry_config, req)
    /\ log' = log \o LogCall(req')
    /\ UNCHANGED <<call, policyVars, dispatchVars, statVars>>

ExecResponse ==
    /\ call.fn \in ExecFns
    /\ req.pc = "call"
    /\ \E response \in TransportResponses(call.fn), d \in Durations :
         /\ req' = IF call.fn = "run_single_http_test"
                   THEN sync_on_return(call.test, call.retry_config,
                                       blocked(req, d), response)
                   ELSE async_on_return(call.test, call.retry_config,
                                        blocked(req, d), response)
         /\ log' = log \o <<Took(Returned(response), d)>> \o LogSleep(req')
                       \o LogValidate(req', response)
    /\ UNCHANGED <<call, policyVars, dispatchVars, statVars>>

ExecError ==
    /\ call.fn \in ExecFns
    /\ req.pc = "call"
    /\ \E e \in TransportErrors, d \in Durations :
         /\ req' = IF call.fn = "run_single_http_test"
                   THEN sync_on_raise(call.retry_config, blocked(req, d), e)
                   ELSE async_on_raise(call.retry_config, blocked(req, d), e)
         /\ log' = log \o <<Took(Raised(e), d)>> \o LogSleep(req')
    /\ UNCHANGED <<call, policyVars, dispatchVars, statVars>>

ExecWake ==
    /\ call.fn \in ExecFns
    /\ req.pc = "sleep"
    /\ req' = exec_wake(call.retry_config, req)
    /\ log' = log \o LogCall(req')
    /\ UNCHANGED <<call, policyVars, dispatchVars, statVars>>

RequestNext ==
    \/ RetryEnter \/ RetryFuncReturns \/ RetryFuncRaises \/ RetryWake
    \/ ExecEnter \/ ExecResponse \/ ExecError \/ ExecWake

SpecRequest == RequestInit /\ [][RequestNext]_vars
-----------------------------------------------------------------------------
(* performance.py: run_performance_test; performance_async.py:              *)
(* run_async_performance.  One dispatch: `repeat` logical requests fanned   *)
(* out over a ThreadPoolExecutor (sync) or over asyncio tasks gated by a    *)
(* semaphore (async).                                                       *)

SyncDefaultConcurrency == 1
AsyncDefaultConcurrency == 10

\* `concurrency = max_concurrency or perf.get('concurrency', <default>)`.
\* max_concurrency = 0 stands for None as well: both are falsy.
Concurrency(r) ==
    IF r.max_concurrency # 0 THEN r.max_concurrency
    ELSE IF r.perf_concurrency.given THEN r.perf_concurrency.value
    ELSE IF r.mode = "sync" THEN SyncDefaultConcurrency
    ELSE AsyncDefaultConcurrency

PoolSizeRepeat(r) == IF r.repeat > 0 THEN r.repeat ELSE 1

\* ThreadPoolExecutor(max_workers=concurrency) / asyncio.Semaphore(concurrency)
PoolSize(r) == Concurrency(r)

sync_worker_uncaught(f) == f

\* worker(_) of run_performance_test: any Exception of the executor becomes
\* the placeholder record.
sync_worker(f) ==
    IF f.pc = "raised"
    THEN [f EXCEPT !.pc = "returned", !.result = Record(0, FALSE, 0, 0)]
    ELSE f

\* worker(session) of run_async_performance: the executor's outcome, result
\* or exception, is the task's.
async_worker(f) == f

worker(mode, f) == IF mode = "sync" THEN sync_worker(f) ELSE async_worker(f)

\* What the collecting loop appends for a finished future / task.  In sync
\* mode f.result() re-raises what the worker raised; in async mode the loop
\* catches Exception and appends the placeholder.
Collected(mode, f) ==
    IF f.pc = "returned" THEN [raised |-> FALSE, record |-> f.result]
    ELSE IF mode = "async" THEN [raised |-> FALSE, record |-> Record(0, FALSE, 0, 0)]
    ELSE [raised |-> TRUE, record |-> NoRecord]

TaskIdsByConcurrency(r) == 1..Concurrency(r)

\* `for i in range(repeat)` / `for _ in range(repeat)`: one future / task per
\* logical request.
TaskIds(r) == 1..r.repeat

Finished(f) == f.pc \in {"returned", "raised"}
Range(q) == {q[k] : k \in 1..Len(q)}

-----------------------------------------------------------------------------
(* Floating point.  Python's floats are IEEE-754 binary64: every operation  *)
(* rounds its exact result to the nearest number with a 53-bit significand, *)
(* ties to even.  The model keeps the rounding and narrows the significand  *)
(* to Precision bits.  A float is held as a whole number of units of        *)
(* 2^-FracBits; the floats that occur below, all of magnitude at least      *)
(* 1/100 or zero, are such multiples.                                       *)

Precision == 9
FracBits == Precision + 8
One == 2 ^ FracBits

\* The spacing of the floats around v >= 0, in units: the power of two q,
\* at least `q0`, for which v \div q has at most Precision bits.
RECURSIVE Spacing(_, _)
Spacing(v, q0) == IF v \div q0 < 2 ^ Precision THEN q0 ELSE Spacing(v, 2 * q0)

\* Round to nearest, ties to even: the exact value m + r/d in spacings.
Nearest(m, r, d) ==
    IF 2 * r > d \/ (2 * r = d /\ m % 2 = 1) THEN m + 1 ELSE m

\* The float nearest to the exact value v.
RoundFloat(v) ==
    LET q == Spacing(v, 1)
    IN  Nearest(v \div q, v % q, q) * q

\* The least e for which a * 2^e / b has Precision bits before the point.
RECURSIVE Exponent(_, _, _)
Exponent(a, b, e) ==
    IF (a * (2 ^ e)) \div b >= 2 ^ (Precision - 1) THEN e ELSE Exponent(a, b, e + 1)

\* a / b on the integers a >= 0 and b > 0: true division, rounded.
FloatDiv(a, b) ==
    IF a = 0 THEN 0
    ELSE LET e == Exponent(a, b, 0)
         IN  Nearest((a * (2 ^ e)) \div b, (a * (2 ^ e)) % b, b) * (2 ^ (FracBits - e))

\* t * x for a float t that is the whole number t, and a float x.
FloatMul(t, x) == RoundFloat(t * x)

-----------------------------------------------------------------------------
(* The statistics of run_performance_test and run_async_performance *)

\* Python's sum, min, max and sorted on a list of numbers.
RECURSIVE sum(_)
sum(q) == IF q = <<>> THEN 0 ELSE Head(q) + sum(Tail(q))
min(q) == CHOOSE x \in Range(q) : \A y \in Range(q) : x <= y
max(q) == CHOOSE x \in Range(q) : \A y \in Range(q) : x >= y

RECURSIVE insert(_, _)
insert(x, q) ==
    IF q = <<>> \/ x <= Head(q) THEN <<x>> \o q
    ELSE <<Head(q)>> \o insert(x, Tail(q))
RECURSIVE sorted(_)
sorted(q) == IF q = <<>> THEN <<>> ELSE insert(Head(q), sorted(Tail(q)))

\* a / b, Python's true division of two integers, kept exact.
Ratio(a, b) == [num |-> a, den |-> b]
\* The integer 0 that stands in when there is nothing to divide by.
Zero == Ratio(0, 1)

Answered(r) == r.status # 0
Times_answered(rs) ==
    LET answered == SelectSeq(rs, Answered)
    IN  [i \in 1..Len(answered) |-> answered[i].elapsed_ms]

\* times = [r['elapsed_ms'] for r in results]
Times(rs) == [i \in 1..Len(rs) |-> rs[i].elapsed_ms]
\* [r['retries'] for r in results]
Retries(rs) == [i \in 1..Len(rs) |-> rs[i].retries]
NumFailed_errors(rs) == Cardinality({i \in 1..Len(rs) : rs[i].status = 0})
NumPassed_all(rs) == Len(rs)

\* len([r for r in results if r['passed']]) and its complement
NumPassed(rs) == Cardinality({i \in 1..Len(rs) : rs[i].passed})
NumFailed(rs) == Cardinality({i \in 1..Len(rs) : ~rs[i].passed})

avg_unguarded(times) == Ratio(sum(times), Len(times))

\* sum(times) / len(times) if times else 0
avg(times) == IF times # <<>> THEN Ratio(sum(times), Len(times)) ELSE Zero

percentile_lower(sorted_times, p) ==
    sorted_times[(FloatMul(Len(sorted_times) - 1, FloatDiv(p, 100)) \div One) + 1] * One

\* _percentile(sorted_times, p): linear interpolation between the two
\* elements around position k = (n - 1) * p / 100.  sorted_times holds
\* whole numbers of ticks, the result is a float.
percentile(sorted_times, p) ==
    LET n == Len(sorted_times)
        k == FloatMul(n - 1, FloatDiv(p, 100))
        f == k \div One
        c == Min(f + 1, n - 1)
    IN  IF f = c THEN sorted_times[f + 1] * One
        ELSE LET d0 == FloatMul(sorted_times[f + 1], RoundFloat(c * One - k))
                 d1 == FloatMul(sorted_times[c + 1], RoundFloat(k - f * One))
             IN  RoundFloat(d0 + d1)

\* benchmarks.percentile(array, p) on a non-empty array: f = floor(k),
\* c = ceil(k), the element at int(k) when they meet, else the interpolation.
benchmarks_percentile(array, p) ==
    LET s == sorted(array)
        k == FloatMul(Len(s) - 1, FloatDiv(p, 100))
        f == k \div One
        c == IF k % One = 0 THEN f ELSE f + 1
    IN  IF f = c THEN s[f + 1] * One
        ELSE LET d0 == FloatMul(s[f + 1], RoundFloat(c * One - k))
                 d1 == FloatMul(s[c + 1], RoundFloat(k - f * One))
             IN  RoundFloat(d0 + d1)

\* `if percentiles and times`: {f"p{int(p)}": _percentile(st, p) for p in
\* percentiles}, as a function of p.
pct_vals(percentiles, times) ==
    IF percentiles # <<>> /\ times # <<>>
    THEN [p \in Range(percentiles) |-> percentile(sorted(times), p)]
    ELSE <<>>

\* A dict without entries.
EmptyDict == [key \in {} |-> 0]

\* `if threshold: summary["threshold_exceeded"] = len([t for t in times if
\* t > threshold])`, threshold being perf.get('threshold_ms', None): no entry
\* for None, and none for 0 either, which is falsy.
threshold_entry(threshold, times) ==
    IF threshold.given /\ threshold.value # 0
    THEN [threshold_exceeded |->
              Cardinality({i \in 1..Len(times) : times[i] > threshold.value})]
    ELSE EmptyDict

\* The summary dict of run_performance_test.
sync_summary(r, rs, wall) ==
    LET times == Times(rs)
        total_retries == sum(Retries(rs))
    IN  [total |-> r.repeat,
         passed |-> NumPassed(rs),
         failed |-> NumFailed(rs),
         min_ms |-> IF times # <<>> THEN min(times) ELSE 0,
         max_ms |-> IF times # <<>> THEN max(times) ELSE 0,
         avg_ms |-> avg(times),
         wall_time_sec |-> wall,
         rps |-> IF wall > 0 THEN Ratio(r.repeat, wall) ELSE Zero,
         total_retries |-> total_retries,
         avg_retries_per_request |->
             IF r.repeat > 0 THEN Ratio(total_retries, r.repeat) ELSE Zero,
         pct |-> pct_vals(r.percentiles, times)]
        @@ threshold_entry(r.threshold_ms, times)

\* The summary dict of run_async_performance, which does not read
\* threshold_ms.
async_summary(r, rs, wall) ==
    LET times == Times(rs)
        total_retries == sum(Retries(rs))
    IN  [total |-> Len(rs),
         passed |-> NumPassed(rs),
         failed |-> NumFailed(rs),
         min_ms |-> IF times # <<>> THEN min(times) ELSE 0,
         max_ms |-> IF times # <<>> THEN max(times) ELSE 0,
         avg_ms |-> avg(times),
         wall_time_sec |-> wall,
         rps |-> IF wall > 0 THEN Ratio(Len(rs), wall) ELSE Zero,
         total_retries |-> total_retries,
         avg_retries_per_request |->
             IF rs # <<>> THEN Ratio(total_retries, Len(rs)) ELSE Zero,
         pct |-> pct_vals(r.percentiles, times)]

Summarize(r, rs, wall) ==
    IF r.mode = "sync" THEN sync_summary(r, rs, wall) ELSE async_summary(r, rs, wall)

\* What run_performance_test hands back: its own `summary`, or, for mode
\* 'async', what execute_async_performance returns, which is the `results`
\* list of run_async_performance.
run_performance_test_return(r) ==
    IF r.mode = "async" THEN "results" ELSE "summary"

-----------------------------------------------------------------------------
(* One dispatch *)

\* What the server and the network do to one attempt of a dispatch.
DispatchStatuses == {200, 500}
DispatchErrors == {Exc("RequestException"), Exc("ValueError")}
DispatchValidators == {<<>>, <<"Is200", "X">>}

\* The tests of a dispatch: a bare GET without validators, and a POST with
\* headers, a body and validators.
DispatchTest(vs) ==
    IF vs = <<>>
    THEN [expected_status |-> None, validators |-> vs,
          method |-> "get", url |-> "u", headers |-> PyNone, body |-> {""}]
    ELSE [expected_status |-> None, validators |-> vs,
          method |-> "POST", url |-> "u", headers |-> {"{Accept: json}"},
          body |-> {"b"}]

\* The executor of either dispatcher.
Executor(mode) ==
    IF mode = "sync" THEN "run_single_http_test" ELSE "async_single_request"
DispatchDurations == {1}

\* wall_elapsed_sec = time.time() - wall_start, as the clock reads it; rps_mode
\* is left at its default, 'wall'.
WallTimes == {0, 2}

\* The status attribute of the response objects of either HTTP library.
DispatchResp(mode, s) == Resp(IF mode = "sync" THEN "status_code" ELSE "status", s)

\* The server of a dispatch: one that may answer each request differently
\* (NoOutcome), or a deterministic one, which meets the dispatch's request,
\* the same every time, with the same answer every time.
DispatchServers(mode) ==
    {NoOutcome} \cup {DispatchResp(mode, s) : s \in DispatchStatuses}
                \cup DispatchErrors

\* What the performance mapping can carry under 'mode': nothing, one of the
\* two modes, or something else.
KnownModes == {"sync", "async"}
ModeArgs == {None} \cup {Some(m) : m \in KnownModes \cup {"turbo", "ASYNC"}}

\* mode = perf.get('mode', 'sync'), then `if mode == 'async'`: the async
\* dispatcher is entered for 'async', the sync code runs for anything else.
dispatch_mode(requested) ==
    IF requested.given /\ requested.value = "async" THEN "async" ELSE "sync"

\* The mappings with one of the two modes are drawn with every test, policy
\* and concurrency, the others with a plain test.
DispatchInit ==
    /\ \E requested \in ModeArgs :
       \E repeat \in 0..MaxRepeat, server \in DispatchServers(dispatch_mode(requested)),
          conc \in {[max |-> 0, perf |-> None], [max |-> MaxConcurrency, perf |-> Some(1)]}
                   \cup {[max |-> 0, perf |-> Some(c)] : c \in 1..MaxConcurrency},
          vs \in DispatchValidators,
          rc \in {None} \cup {Some(RetryConfig(mr, 1, 10, None, None)) :
                                  mr \in {-1, MaxDispatchRetries}} :
       /\ \/ requested.given /\ requested.value \in KnownModes
          \/ vs = <<>> /\ rc = None /\ conc = [max |-> 0, perf |-> None]
       /\ run = [mode |-> dispatch_mode(requested), requested |-> requested,
                repeat |-> repeat,
                max_concurrency |-> conc.max, perf_concurrency |-> conc.perf,
                percentiles |-> <<50, 95>>,
                threshold_ms |-> None,
                test |-> DispatchTest(vs),
                retry_config |-> rc,
                server |-> server]
    /\ tasks = [i \in TaskIds(run) |-> [exec_frame EXCEPT !.pc = "new"]]
    /\ seen = [i \in TaskIds(run) |-> NoOutcome]
    /\ slots = PoolSize(run)
    /\ done_q = <<>>
    /\ first_batch = {}
    /\ results = <<>>
    /\ mainpc = "submit"
    /\ stats = [invoked |-> 0, issued |-> 0, sent |-> {}]
    /\ summary = NoSummary
    /\ returned = "nothing"
    /\ PolicyIdle
    /\ RequestIdle
    /\ StatIdle

Stalled_blocking(mode, ts) ==
    IF mode = "async" /\ \E i \in DOMAIN ts : ts[i].pc = "sleep"
    THEN DOMAIN ts
    ELSE {i \in DOMAIN ts : ts[i].pc = "sleep"}

\* The workers / tasks that the backoff sleeps under way keep from running:
\* the sleepers themselves.  time.sleep(delay) holds the pool thread that
\* called it, `await asyncio.sleep(delay)` hands the event loop back.
Stalled(mode, ts) == {i \in DOMAIN ts : ts[i].pc = "sleep"}

\* exec.submit(worker, i): one more work item in the pool's queue.
Submit ==
    /\ mainpc = "submit" /\ run.mode = "sync"
    /\ \E i \in TaskIds(run) :
         /\ tasks[i].pc = "new"
         /\ \A j \in 1..(i - 1) : tasks[j].pc # "new"
         /\ tasks' = [tasks EXCEPT ![i].pc = "start"]
    /\ UNCHANGED <<run, slots, done_q, first_batch, results, mainpc, seen, stats,
                   policyVars, requestVars,
                   summary, returned, statVars>>

\* as_completed(futures) is called: the futures already done are yielded
\* first, in the iteration order of a set.
AsCompleted ==
    /\ mainpc = "submit" /\ run.mode = "sync"
    /\ \A i \in TaskIds(run) : tasks[i].pc # "new"
    /\ first_batch' = Range(done_q)
    /\ mainpc' = "collect"
    /\ UNCHANGED <<run, tasks, slots, done_q, results, seen, stats,
                   policyVars, requestVars, summary, returned, statVars>>

\* tasks = [asyncio.create_task(worker(session)) for _ in range(repeat)],
\* then asyncio.as_completed(tasks): no task runs before the first await.
CreateTasks ==
    /\ mainpc = "submit" /\ run.mode = "async"
    /\ tasks' = [i \in TaskIds(run) |-> [tasks[i] EXCEPT !.pc = "start"]]
    /\ mainpc' = "collect"
    /\ UNCHANGED <<run, slots, done_q, first_batch, results, seen, stats,
                   policyVars, requestVars,
                   summary, returned, statVars>>

Releases_on_sleep(g) == Finished(g) \/ g.pc = "sleep"

\* The step that leaves the frame as g gives the slot back: the pool thread
\* is free when worker returns, and `async with semaphore` is left when
\* async_single_request returns or raises, not at an await inside it.
Releases(g) == Finished(g)

\* A step of the worker/task of logical request i that leaves its frame as g.
TaskStep(i, g0) ==
    LET g == worker(run.mode, g0)
    IN  /\ tasks' = [tasks EXCEPT ![i] = g]
        /\ slots' = IF Releases(g) THEN slots + 1 ELSE slots
        /\ done_q' = IF Finished(g) THEN Append(done_q, i) ELSE done_q
        /\ stats' = IF g.pc = "call"
                     THEN [stats EXCEPT
                              !.issued = @ + 1,
                              !.sent = @ \cup {make_request(Executor(run.mode), run.test, g)}]
                     ELSE stats

\* A pool thread takes the oldest work item / a task acquires the semaphore:
\* the executor is entered and issues its first request.
StartTask ==
    /\ slots > 0
    /\ \E i \in TaskIds(run) :
         /\ tasks[i].pc = "start"
         /\ i \notin Stalled(run.mode, tasks)
         /\ \A j \in 1..(i - 1) : tasks[j].pc # "start"
         /\ tasks' = [tasks EXCEPT ![i] = exec_begin(run.retry_config, tasks[i])]
         /\ stats' = [invoked |-> stats.invoked + 1, issued |-> stats.issued + 1,
                      sent |-> stats.sent \cup
                                   {make_request(Executor(run.mode), run.test, tasks'[i])}]
    /\ slots' = slots - 1
    /\ UNCHANGED <<run, done_q, first_batch, results, mainpc, seen,
                   policyVars, requestVars,
                   summary, returned, statVars>>

TaskResponse ==
    /\ \E i \in TaskIds(run), s \in DispatchStatuses, d \in DispatchDurations :
         LET response == DispatchResp(run.mode, s)
             f == blocked(tasks[i], d)
         IN  /\ tasks[i].pc = "call"
             /\ i \notin Stalled(run.mode, tasks)
             /\ run.server \in {NoOutcome, response}
             /\ TaskStep(i, IF run.mode = "sync"
                            THEN sync_on_return(run.test, run.retry_config, f, response)
                            ELSE async_on_return(run.test, run.retry_config, f, response))
             /\ seen' = [seen EXCEPT ![i] = response]
    /\ UNCHANGED <<run, first_batch, results, mainpc, policyVars, requestVars,
                   summary, returned, statVars>>

TaskError ==
    /\ \E i \in TaskIds(run), e \in DispatchErrors, d \in DispatchDurations :
         /\ tasks[i].pc = "call"
         /\ i \notin Stalled(run.mode, tasks)
         /\ run.server \in {NoOutcome, e}
         /\ TaskStep(i, IF run.mode = "sync"
                        THEN sync_on_raise(run.retry_config, blocked(tasks[i], d), e)
                        ELSE async_on_raise(run.retry_config, blocked(tasks[i], d), e))
         /\ seen' = [seen EXCEPT ![i] = e]
    /\ UNCHANGED <<run, first_batch, results, mainpc, policyVars, requestVars,
                   summary, returned, statVars>>

TaskWake ==
    /\ \E i \in TaskIds(run) :
         /\ tasks[i].pc = "sleep"
         /\ TaskStep(i, exec_wake(run.retry_config, tasks[i]))
    /\ UNCHANGED <<run, first_batch, results, mainpc, seen, policyVars, requestVars,
                   summary, returned, statVars>>

\* One turn of `for f in as_completed(...)`: results.append(...).
Collect ==
    /\ mainpc = "collect"
    /\ \E i \in TaskIds(run) :
         /\ IF first_batch # {} THEN i \in first_batch
            ELSE done_q # <<>> /\ i = Head(done_q)
         /\ first_batch' = first_batch \ {i}
         /\ done_q' = SelectSeq(done_q, LAMBDA j : j # i)
         /\ LET c == Collected(run.mode, tasks[i])
            IN  IF c.raised
                THEN mainpc' = "raised" /\ results' = results
                ELSE mainpc' = mainpc /\ results' = Append(results, c.record)
    /\ UNCHANGED <<run, tasks, slots, seen, stats, policyVars, requestVars,
                   summary, returned, statVars>>

\* as_completed is exhausted: every future / task has been yielded.
Exhausted ==
    /\ mainpc = "collect"
    /\ \A i \in TaskIds(run) : Finished(tasks[i])
    /\ first_batch = {} /\ done_q = <<>>

\* The loop over as_completed ends: the pool / the session is closed and
\* the summary is computed.
Complete ==
    /\ Exhausted
    /\ mainpc' = "done"
    /\ \E wall \in WallTimes : summary' = Summarize(run, results, wall)
    /\ returned' = run_performance_test_return(run)
    /\ UNCHANGED <<run, tasks, slots, done_q, first_batch, results, seen, stats,
                   policyVars, requestVars, statVars>>

\* A task holds a semaphore slot / a pool thread from its first request to
\* its end.
Holding(f) == f.pc \in {"call", "sleep"}

\* asyncio.run's clean-up cancels every task still pending: CancelledError is
\* thrown at the task's current await, be it the semaphore, the request or
\* the backoff sleep.  It is no Exception, so neither `except Exception` of
\* async_single_request catches it, and `async with semaphore` unwinds.
async_cancel(f) ==
    IF f.pc \in {"start", "call", "sleep"} THEN [f EXCEPT !.pc = "cancelled"] ELSE f

async_release_none(ts) == 0

\* Slots given back by the tasks that the cancellation unwinds.
async_release(ts) == Cardinality({i \in DOMAIN ts : Holding(ts[i])})

\* SIGINT while run_performance_test is dispatching.  Neither dispatcher has
\* a handler or a deadline of its own.  Sync: KeyboardInterrupt is raised in
\* the main thread inside the `with ThreadPoolExecutor` block, whose exit is
\* shutdown(wait=True): the work items already submitted stay queued and the
\* pool threads go on.  Async: asyncio.run cancels the main task, which
\* leaves the collecting loop through `finally: await session.close()`, and
\* then cancels the remaining tasks.
Interrupt ==
    /\ mainpc \in {"submit", "collect"}
    /\ IF run.mode = "sync"
       THEN mainpc' = "interrupted" /\ UNCHANGED <<tasks, slots>>
       ELSE /\ mainpc' = "cancelled"
            /\ tasks' = [i \in DOMAIN tasks |-> async_cancel(tasks[i])]
            /\ slots' = slots + async_release(tasks)
    /\ UNCHANGED <<run, done_q, first_batch, results, seen, stats,
                   policyVars, requestVars, summary, returned, statVars>>

\* shutdown(wait=True) returns once every submitted work item has run; the
\* KeyboardInterrupt then leaves run_performance_test, and `results` with it.
PoolJoined ==
    /\ mainpc = "interrupted"
    /\ \A i \in TaskIds(run) : tasks[i].pc = "new" \/ Finished(tasks[i])
    /\ mainpc' = "cancelled"
    /\ UNCHANGED <<run, tasks, slots, done_q, first_batch, results, seen, stats,
                   policyVars, requestVars, summary, returned, statVars>>

Next ==
    \/ Submit \/ AsCompleted \/ CreateTasks
    \/ StartTask \/ TaskResponse \/ TaskError \/ TaskWake
    \/ Collect \/ Complete
    \/ Interrupt \/ PoolJoined

Spec == DispatchInit /\ [][Next]_vars

\* The dispatches whose every attempt may be answered by any status or
\* error, under no policy or one with max_retries >= 0, of a test without
\* validators, in a mode asked for by name, one at a time or
\* MaxConcurrency at a time as the performance mapping says.
LiveInit ==
    /\ DispatchInit
    /\ run.server = NoOutcome
    /\ run.retry_config.given => run.retry_config.value.max_retries >= 0
    /\ run.test.validators = <<>>
    /\ run.requested.given /\ run.requested.value \in KnownModes
    /\ run.max_concurrency = 0
    /\ run.perf_concurrency \in {Some(1), Some(MaxConcurrency)}

\* A dispatch that no SIGINT stops.
NextLive ==
    \/ Submit \/ AsCompleted \/ CreateTasks
    \/ StartTask \/ TaskResponse \/ TaskError \/ TaskWake
    \/ Collect \/ Complete

\* One of the steps that the schedulers owe: the main thread / main task
\* runs on (Submit, AsCompleted, CreateTasks, Collect), a free pool thread
\* takes the oldest work item and asyncio.Semaphore wakes its oldest waiter
\* (StartTask), time.sleep and asyncio.sleep return (TaskWake), and every
\* HTTP attempt comes back, as a response or as an error (TaskResponse,
\* TaskError).
Scheduled ==
    \/ Submit \/ AsCompleted \/ CreateTasks
    \/ StartTask \/ TaskResponse \/ TaskError \/ TaskWake
    \/ Collect

\* The uninterrupted dispatch under its schedulers: a step that is owed is
\* not put off for ever.  The condition on Complete is WF_vars(Complete)
\* written out, Complete being enabled exactly where Exhausted holds.
SpecLive ==
    /\ LiveInit /\ [][NextLive]_vars
    /\ WF_vars(Scheduled)
    /\ (<>[]Exhausted => []<><<Complete>>_vars)
-----------------------------------------------------------------------------
(* SpecSummary: the statistics of either dispatcher, computed from any      *)
(* record list the collecting loop can leave behind.                        *)

MaxRecords == 3         \* a record list holds 0..MaxRecords records
MaxElapsed == 3         \* elapsed_ms ranges over 0..MaxElapsed ticks

PercentileArgs == {<<>>, <<50, 95, 99>>, <<0, 10, 30, 100>>}

\* performance.threshold_ms: not set, 0, or MaxElapsed - 1 ticks.
ThresholdArgs == {None, Some(0), Some(MaxElapsed - 1)}

\* The placeholder of a failed worker, and records of answered requests.
SummaryRecords ==
    {Record(0, FALSE, 0, 0)}
        \cup {Record(200, TRUE, t, 0) : t \in 0..MaxElapsed}
        \cup {Record(500, FALSE, t, 1) : t \in 1..MaxElapsed}

SummaryInit ==
    /\ \E n \in 0..MaxRecords : \E rs \in [1..n -> SummaryRecords] :
         stat = [op |-> "collected", run |-> NoRun, results |-> rs,
                 summary |-> NoSummary]
    /\ PolicyIdle
    /\ RequestIdle
    /\ DispatchIdle

\* The statistics block of a dispatcher runs on the collected records, the
\* clock having advanced since wall_start.
CallSummarize ==
    /\ stat.op = "collected"
    /\ \E mode \in {"sync", "async"}, ps \in PercentileArgs,
          wall \in {w \in WallTimes : w > 0}, th \in ThresholdArgs :
         LET r == [mode |-> mode, repeat |-> Len(stat.results),
                   percentiles |-> ps, threshold_ms |-> th]
         IN  stat' = [stat EXCEPT !.op = "summarized", !.run = r,
                                  !.summary = Summarize(r, stat.results, wall)]
    /\ UNCHANGED <<policyVars, requestVars, dispatchVars>>

SummaryNext == CallSummarize

SpecSummary == SummaryInit /\ [][SummaryNext]_vars
-----------------------------------------------------------------------------
(* Reading the log of SpecRequest *)

IsCall(e) == e.ev = "call"
IsSleep(e) == e.ev = "sleep"
IsOutcome(e) == e.ev \in {"return", "raise"}

NumCalls == Len(SelectSeq(log, IsCall))
Sleeps == SelectSeq(log, IsSleep)
Outcomes == SelectSeq(log, IsOutcome)
RequestDone == req.pc \in {"returned", "raised"}

\* The retry policy in force, and whether the function retries at all.
Policy == IF call.fn \in RetryFns THEN call.config ELSE call.retry_config.value
Retrying ==
    \/ call.fn \in RetryFns
    \/ call.fn \in ExecFns /\ call.retry_config.given
                           /\ call.retry_config.value.max_retries > 0

\* A response whose status the function can read and the policy retries.
RetryableStatus(e) ==
    /\ e.ev = "return"
    /\ call.fn \in RetryFns => e.out.attr = StatusAttr(call.fn)
    /\ e.out.status \in Policy.retry_statuses

\* An exception the function retries.
RetryableException(e) ==
    /\ e.ev = "raise"
    /\ CASE call.fn \in RetryFns -> e.out.exc \in Policy.retry_exceptions
         [] call.fn = "run_single_http_test" -> e.out.exc = "RequestException"
         [] OTHER -> TRUE

\* Number of calls issued up to and including position k of the log.
RECURSIVE CallsUpTo(_)
CallsUpTo(k) ==
    IF k = 0 THEN 0 ELSE CallsUpTo(k - 1) + (IF log[k].ev = "call" THEN 1 ELSE 0)

-----------------------------------------------------------------------------
(* Reading the state of a dispatch *)

InFlight == Cardinality({i \in DOMAIN tasks : tasks[i].pc = "call"})
Dispatching == mainpc # "none"

\* How many entries of q satisfy a given property of records.
RECURSIVE CountStatus(_, _)
CountStatus(q, status) ==
    IF q = <<>> THEN 0
    ELSE (IF Head(q).status = status THEN 1 ELSE 0) + CountStatus(Tail(q), status)

-----------------------------------------------------------------------------
(* C1: in both dispatchers, in every state of a dispatch, the number of     *)
(* HTTP requests in flight is at most `concurrency`.                        *)

C1_ConcurrencyCap == Dispatching => InFlight <= Concurrency(run)

\* The cap binds: as many requests in flight as allowed, another one waiting.
C1_Witness ==
    /\ Dispatching /\ run.mode = "async"
    /\ InFlight = Concurrency(run)
    /\ \E i \in DOMAIN tasks : tasks[i].pc = "start"

(* C2: a dispatch that completes has invoked the executor exactly `repeat`  *)
(* times and has collected exactly `repeat` records, whatever the requests  *)
(* met; until then it has invoked it at most `repeat` times.                *)

C2_RepeatRecords ==
    Dispatching =>
        /\ stats.invoked <= run.repeat
        /\ Len(results) <= run.repeat
        /\ mainpc = "done" => stats.invoked = run.repeat /\ Len(results) = run.repeat

\* A completed dispatch of two requests: one met a transport error, one an
\* unexpected exception.
C2_Witness ==
    /\ mainpc = "done" /\ run.repeat = 2 /\ Len(results) = 2
    /\ \E i, j \in DOMAIN seen :
         /\ seen[i] = Exc("RequestException")
         /\ seen[j] = Exc("ValueError")

AllValidatorsTrue(test, response) ==
    \A k \in 1..Len(test.validators) : Verdict(test.validators[k], response) = "true"

(* C3: for every record an executor produces from a kept response, passed   *)
(* is true iff the status is in expected_status and every validator         *)
(* returns true on that response.                                           *)

C3_PassCriterion ==
    (call.fn \in ExecFns /\ req.pc = "returned" /\ Outcomes # <<>>
        /\ Outcomes[Len(Outcomes)].ev = "return") =>
        LET response == Outcomes[Len(Outcomes)].out
        IN  req.result.passed <=>
               /\ response.status \in ExpectedStatus(call.test)
               /\ AllValidatorsTrue(call.test, response)

(* C4: when every attempt is answered with a retryable status (one that is  *)
(* not an expected status), the record carries that status, retries equal   *)
(* to max_retries and passed = false.                                       *)

C4_RetryExhaustion ==
    (/\ call.fn \in ExecFns /\ RequestDone
     /\ call.retry_config.given /\ Policy.max_retries >= 0
     /\ \A k \in 1..Len(Outcomes) :
           /\ RetryableStatus(Outcomes[k])
           /\ Outcomes[k].out.status \notin ExpectedStatus(call.test)) =>
        /\ req.pc = "returned"
        /\ req.result.status = Outcomes[Len(Outcomes)].out.status
        /\ req.result.retries = Policy.max_retries
        /\ req.result.passed = FALSE

(* C5: a transport error that persists until the retries are exhausted, or  *)
(* that occurs with no retry configured, is never propagated to the caller  *)
(* of the dispatcher: the dispatch is not aborted, the request becomes a    *)
(* record with status 0 and passed = false, and every request whose kept    *)
(* response was validated without an exception keeps that response's status.*)

C5_TransportErrorAbsorbed ==
    Dispatching =>
        /\ mainpc # "raised"
        /\ \A i \in DOMAIN tasks :
             Finished(tasks[i]) =>
                /\ seen[i] = Exc("RequestException") =>
                      /\ tasks[i].pc = "returned"
                      /\ tasks[i].result.status = 0
                      /\ tasks[i].result.passed = FALSE
                /\ (seen[i].kind = "resp" /\
                    (run.mode = "sync" =>
                        run_validators(run.test, seen[i]).outcome # "raised")) =>
                      /\ tasks[i].pc = "returned"
                      /\ tasks[i].result.status = seen[i].status
        /\ mainpc = "done" =>
             /\ Len(results) = run.repeat
             /\ \A s \in {0} \cup DispatchStatuses :
                  CountStatus(results, s) =
                     Cardinality({i \in DOMAIN tasks : tasks[i].result.status = s})

\* A completed sync dispatch with a retry policy: request 1 met transport
\* errors on every attempt, request 2 was answered 200 and passed.
C5_Witness ==
    /\ mainpc = "done" /\ run.mode = "sync" /\ run.repeat = 2
    /\ run.retry_config.given
    /\ seen[1] = Exc("RequestException")
    /\ tasks[1].attempt = run.retry_config.value.max_retries
    /\ tasks[1].result = Record(0, FALSE, 0, 0)
    /\ tasks[2].result.status = 200 /\ tasks[2].result.passed
    /\ Len(results) = 2

(* C6: retry_sync (and retry_async) calls the wrapped function at most      *)
(* max_retries + 1 times; when every call returns a status in               *)
(* retry_statuses it makes exactly max_retries + 1 calls and then returns   *)
(* the last response.                                                       *)

C6_AttemptsBounded ==
    call.fn \in RetryFns =>
        /\ NumCalls <= call.config.max_retries + 1
        /\ (/\ RequestDone /\ call.config.max_retries >= 0
            /\ \A k \in 1..Len(Outcomes) : RetryableStatus(Outcomes[k])) =>
              /\ NumCalls = call.config.max_retries + 1
              /\ Len(Outcomes) = NumCalls
              /\ req.pc = "returned"
              /\ req.result = Outcomes[Len(Outcomes)].out

\* test_max_retries_exhausted: max_retries = 2, three calls answered 500.
C6_Witness ==
    /\ call.fn = "retry_sync" /\ call.statuses_arg = None
    /\ call.config.max_retries = 2
    /\ req.pc = "returned" /\ NumCalls = 3
    /\ \A k \in 1..Len(Outcomes) : Outcomes[k] = Returned(Resp("status_code", 500))
    /\ req.result = Resp("status_code", 500)

(* C7: when every call raises an exception of a type in retry_exceptions,   *)
(* retry_sync (and retry_async) makes exactly max_retries + 1 calls and     *)
(* then raises that exception to its caller.                                *)

C7_ExceptionExhaustion ==
    (/\ call.fn \in RetryFns /\ RequestDone /\ call.config.max_retries >= 0
     /\ \A k \in 1..Len(Outcomes) : RetryableException(Outcomes[k])) =>
        /\ NumCalls = call.config.max_retries + 1
        /\ Len(Outcomes) = NumCalls
        /\ req.pc = "raised"
        /\ req.result = Outcomes[Len(Outcomes)].out

\* test_exception_exhausts_retries: max_retries = 2, three ConnectionErrors.
C7_Witness ==
    /\ call.fn = "retry_sync" /\ call.config.max_retries = 2
    /\ req.pc = "raised" /\ NumCalls = 3
    /\ \A k \in 1..Len(Outcomes) : Outcomes[k] = Raised(Exc("ConnectionError"))
    /\ req.result = Exc("ConnectionError")

\* The retry_statuses argument is None or a non-empty list.
C8_StatusArgCovered ==
    call.fn \in RetryFns /\ (call.statuses_arg.given => call.statuses_arg.value # {})

(* C8: should_retry holds of exactly the statuses of retry_statuses: the    *)
(* defaults 500, 502, 503, 504 when none are given, the custom list alone   *)
(* when one is given.  Before the last attempt a returned status is         *)
(* followed by a backoff sleep iff should_retry holds of it; a first        *)
(* response whose status is not in retry_statuses ends the function after   *)
(* one call, with no sleep and retries = 0.                                 *)

C8_RetryIffStatusListed ==
    /\ C8_StatusArgCovered =>
         /\ \A s \in Statuses \cup DefaultRetryStatuses :
              should_retry(s, call.config) <=>
                 IF call.statuses_arg.given THEN s \in call.statuses_arg.value
                 ELSE s \in {500, 502, 503, 504}
         /\ \A k \in 1..Len(log) :
              (/\ log[k].ev = "return"
               /\ log[k].out.attr = StatusAttr(call.fn)
               /\ CallsUpTo(k) - 1 < call.config.max_retries) =>
                 LET listed == IF call.statuses_arg.given
                               THEN log[k].out.status \in call.statuses_arg.value
                               ELSE log[k].out.status \in {500, 502, 503, 504}
                 IN  (k < Len(log) /\ log[k + 1].ev = "sleep") <=> listed
    /\ (/\ call.fn \in RetryFns \cup ExecFns /\ Len(Outcomes) >= 1
        /\ Outcomes[1].ev = "return"
        /\ Retrying => Outcomes[1].out.status \notin Policy.retry_statuses) =>
          /\ NumCalls = 1
          /\ Sleeps = <<>>
          /\ call.fn \in RetryFns => req.pc = "returned" /\ req.result = Outcomes[1].out
          /\ call.fn \in ExecFns => RequestDone
          /\ (call.fn \in ExecFns /\ req.pc = "returned") => req.result.retries = 0

\* test_custom_retry_statuses: under [429, 503] a first answer of 500 is
\* returned after one call.
C8_Witness ==
    /\ call.fn = "retry_sync" /\ call.statuses_arg = Some({429, 503})
    /\ call.config.max_retries >= 1
    /\ log = <<Called, Returned(Resp("status_code", 500))>>
    /\ req.pc = "returned" /\ req.result = Resp("status_code", 500)

\* The first backoff delay, from the policy's parameters.
FirstDelay == IF Policy.backoff_base <= Policy.backoff_max
              THEN Policy.backoff_base ELSE Policy.backoff_max

(* C9: when the first attempt fails retryably and the second attempt is     *)
(* answered with a status that is not retried, exactly two calls are made,  *)
(* a single backoff sleep of get_backoff_delay(0) lies between the failed   *)
(* attempt and the second call, the second response is the one returned     *)
(* (recorded, with retries = 1, by the executors); and no call is           *)
(* outstanding while a backoff sleep lasts.                                 *)

C9_RetryThenSuccess ==
    /\ (req.pc = "sleep") =>
          /\ NumCalls = Len(Outcomes)
          /\ log[Len(log)] = Slept(req.delay)
    /\ (/\ call.fn \in RetryFns \cup ExecFns /\ Len(Outcomes) >= 2
        /\ RetryableStatus(Outcomes[1]) \/ RetryableException(Outcomes[1])
        /\ Outcomes[2].ev = "return"
        /\ ~RetryableStatus(Outcomes[2])) =>
          /\ NumCalls = 2
          /\ SubSeq(log, 1, 5) =
                <<Called, Outcomes[1], Slept(FirstDelay), Called, Outcomes[2]>>
          /\ Sleeps = <<Slept(FirstDelay)>>
          /\ RequestDone
          /\ call.fn \in RetryFns =>
                req.pc = "returned" /\ req.result = Outcomes[2].out
          /\ (call.fn \in ExecFns /\ req.pc = "returned") =>
                /\ req.result.status = Outcomes[2].out.status
                /\ req.result.retries = 1

\* test_retry_on_500_then_success: 500, a sleep of backoff_base, then 200.
C9_Witness ==
    /\ call.fn = "retry_sync" /\ call.config.max_retries = 2
    /\ call.config.backoff_base = 1
    /\ log = <<Called, Returned(Resp("status_code", 500)), Slept(1),
               Called, Returned(Resp("status_code", 200))>>
    /\ req.pc = "returned" /\ req.result = Resp("status_code", 200)

\* x doubled `times` times.
RECURSIVE Doubled(_, _)
Doubled(x, times) == IF times = 0 THEN x ELSE Doubled(x + x, times - 1)

(* C10: for every attempt >= 0, get_backoff_delay(attempt) is the smaller   *)
(* of backoff_base doubled `attempt` times and backoff_max; attempt 0       *)
(* yields backoff_base whenever backoff_base <= backoff_max.                *)

C10_BackoffFormula ==
    policy.op = "get_backoff_delay" =>
        LET base == policy.config.backoff_base
            cap == policy.config.backoff_max
            uncapped == Doubled(base, policy.arg)
        IN  /\ policy.delay = IF uncapped <= cap THEN uncapped ELSE cap
            /\ (policy.arg = 0 /\ base <= cap) => policy.delay = base
            /\ (base = 1 /\ cap = 10) =>
                  policy.delay = <<1, 2, 4, 8, 10, 10, 10>>[policy.arg + 1]

\* test_backoff_delay_calculation: base 1, max 10, attempt 4 is capped at 10.
C10_Witness ==
    /\ policy.op = "get_backoff_delay"
    /\ policy.config.backoff_base = 1 /\ policy.config.backoff_max = 10
    /\ policy.arg = 4 /\ policy.delay = 10

(* C11: for every RetryConfig with backoff_base >= 0 and every attempt >= 0,*)
(* get_backoff_delay(attempt) <= backoff_max, and a later attempt never     *)
(* yields a smaller delay than an earlier one; in particular the delays of  *)
(* attempts 0, 1, 2, ..., which are the backoff sleeps of one logical       *)
(* request in this order, are non-decreasing and never exceed backoff_max.  *)

C11_BackoffMonotoneCapped ==
    policy.op = "get_backoff_delay" =>
        /\ policy.delay <= policy.config.backoff_max
        /\ (policy.prev_attempt >= 0 /\ policy.prev_attempt <= policy.arg) =>
              policy.prev_delay <= policy.delay
        /\ policy.prev_attempt > policy.arg => policy.prev_delay >= policy.delay
        /\ \A a \in 0..policy.arg :
              get_backoff_delay(policy.config, a) <= policy.delay

\* Two consecutive attempts, as the retry loop makes them: attempt 1 waits
\* 6 ticks, attempt 2 would wait 12 and is capped at backoff_max = 10.
C11_Witness ==
    /\ policy.op = "get_backoff_delay"
    /\ policy.config.backoff_base = 3 /\ policy.config.backoff_max = 10
    /\ policy.prev_attempt = 1 /\ policy.prev_delay = 6
    /\ policy.arg = 2 /\ policy.delay = 10

(* C12: every record an executor produces has retries <= max_retries, and   *)
(* retries is the number of retry attempts made before the outcome the      *)
(* record reports, which is the number of backoff sleeps and one less than  *)
(* the number of requests issued.                                           *)

C12_RetriesCounted ==
    (call.fn \in ExecFns /\ req.pc = "returned") =>
        /\ req.result.retries = Len(Sleeps)
        /\ req.result.retries = NumCalls - 1
        /\ call.retry_config.given => req.result.retries <= Policy.max_retries

\* The retries of the records of logical requests 1..n, added up.
RECURSIVE RetriesUpTo(_)
RetriesUpTo(n) ==
    IF n = 0 THEN 0
    ELSE RetriesUpTo(n - 1) + Collected(run.mode, tasks[n]).record.retries

(* C13: in every completed run the summary's total_retries is the sum of    *)
(* the records' retries and is at most repeat * max_retries, and            *)
(* avg_retries_per_request is total_retries / total, or 0 when total is 0.  *)

C13_TotalRetries ==
    mainpc = "done" =>
        /\ summary.total_retries = RetriesUpTo(run.repeat)
        /\ run.retry_config.given =>
              summary.total_retries <= run.repeat * run.retry_config.value.max_retries
        /\ ~run.retry_config.given => summary.total_retries = 0
        /\ summary.total # 0 =>
              summary.avg_retries_per_request =
                  Ratio(summary.total_retries, summary.total)
        /\ summary.total = 0 => summary.avg_retries_per_request = Zero

(* C14: every summary a dispatcher produces satisfies passed + failed =     *)
(* total = the number of collected records, whatever the outcomes of the    *)
(* requests, a run of repeat = 0 included.                                  *)

C14_PassedFailedTotal ==
    mainpc = "done" =>
        /\ summary.passed + summary.failed = summary.total
        /\ summary.total = Len(results)
        /\ summary.passed =
              Cardinality({i \in DOMAIN tasks : Collected(run.mode, tasks[i]).record.passed})

\* Two requests of a sync run: one answered 200, one lost to an exception
\* in its worker.
C14_Witness ==
    /\ mainpc = "done" /\ run.mode = "sync" /\ run.repeat = 2
    /\ {seen[1], seen[2]} = {Resp("status_code", 200), Exc("ValueError")}
    /\ summary.total = 2 /\ summary.passed = 1 /\ summary.failed = 1

(* C15: in every summary over at least one record, min_ms <= avg_ms <=      *)
(* max_ms, where min_ms and max_ms are the least and the greatest           *)
(* elapsed_ms of the records and avg_ms is their mean, the elapsed_ms = 0   *)
(* of placeholder records included; over no records all three are 0.       *)

C15_MinAvgMax ==
    stat.op = "summarized" =>
        LET s == stat.summary
            rs == stat.results
        IN  /\ rs # <<>> =>
                  /\ s.total >= 1
                  /\ s.min_ms * s.avg_ms.den <= s.avg_ms.num
                  /\ s.avg_ms.num <= s.max_ms * s.avg_ms.den
                  /\ \A i \in 1..Len(rs) :
                        s.min_ms <= rs[i].elapsed_ms /\ rs[i].elapsed_ms <= s.max_ms
                  /\ \E i, j \in 1..Len(rs) :
                        s.min_ms = rs[i].elapsed_ms /\ s.max_ms = rs[j].elapsed_ms
                  /\ s.avg_ms = Ratio(sum([i \in 1..Len(rs) |-> rs[i].elapsed_ms]),
                                      Len(rs))
            /\ rs = <<>> =>
                  s.min_ms = 0 /\ s.max_ms = 0 /\ s.avg_ms = Zero

\* A placeholder record next to a request that took 3 ticks: 0 <= 3/2 <= 3.
C15_Witness ==
    /\ stat.op = "summarized" /\ stat.run.mode = "sync"
    /\ stat.results = <<Record(0, FALSE, 0, 0), Record(200, TRUE, 3, 0)>>
    /\ stat.summary.min_ms = 0 /\ stat.summary.max_ms = 3
    /\ stat.summary.avg_ms = Ratio(3, 2)

(* C16: for any non-empty list of elapsed times and any two requested       *)
(* percentiles p1 < p2 in [0, 100], the summary's value for p1 is less      *)
(* than or equal to its value for p2.                                       *)

C16_PercentileMonotone ==
    stat.op = "summarized" =>
        \A p1, p2 \in DOMAIN stat.summary.pct :
            p1 < p2 => stat.summary.pct[p1] <= stat.summary.pct[p2]

(* C17: the elapsed_ms of a record is the duration of the final attempt     *)
(* alone, the one whose outcome the record reports: the timer is restarted  *)
(* after every backoff sleep, so neither an earlier attempt nor a sleep is  *)
(* counted, whether the retries were triggered by statuses or exceptions.   *)

C17_ElapsedFinalAttempt ==
    (call.fn \in ExecFns /\ req.pc = "returned") =>
        /\ req.result.elapsed_ms = Outcomes[Len(Outcomes)].delay
        /\ req.result.elapsed_ms \in Durations

\* S2 with a slow first attempt: 503 after 2 ticks, a backoff sleep of 1,
\* then 200 after 1 tick; 4 ticks have passed, the record says 1.
C17_Witness ==
    /\ call.fn = "run_single_http_test" /\ req.pc = "returned"
    /\ Len(log) >= 5
    /\ SubSeq(log, 1, 5) =
          <<Called, Took(Returned(Resp("status_code", 503)), 2), Slept(1),
            Called, Took(Returned(Resp("status_code", 200)), 1)>>
    /\ req.now = 4
    /\ req.result.elapsed_ms = 1 /\ req.result.retries = 1

(* C18: with repeat = 0 a dispatcher issues no HTTP request, collects no    *)
(* record, does not raise, and produces a summary whose total, passed,      *)
(* failed, min_ms, max_ms, avg_ms, total_retries and                        *)
(* avg_retries_per_request are all 0.                                       *)

C18_EmptyRun ==
    (Dispatching /\ run.repeat = 0) =>
        /\ stats.issued = 0 /\ stats.invoked = 0
        /\ results = <<>>
        /\ mainpc # "raised"
        /\ mainpc = "done" =>
              /\ summary.total = 0 /\ summary.passed = 0 /\ summary.failed = 0
              /\ summary.min_ms = 0 /\ summary.max_ms = 0
              /\ summary.avg_ms = Zero
              /\ summary.total_retries = 0
              /\ summary.avg_retries_per_request = Zero

\* An async run of no request, with a retry policy, has completed.
C18_Witness ==
    /\ mainpc = "done" /\ run.mode = "async" /\ run.repeat = 0
    /\ run.retry_config.given
    /\ summary.total = 0 /\ summary.avg_ms = Zero

\* No retry policy, or one with max_retries = 0.
NoRetries == ~call.retry_config.given \/ Policy.max_retries = 0

(* C19: with max_retries = 0, or with no retry configuration, a logical     *)
(* request issues exactly one HTTP attempt whatever its outcome, never      *)
(* sleeps, and the record's retries field is 0.                             *)

C19_NoRetrySingleAttempt ==
    (call.fn \in ExecFns /\ NoRetries) =>
        /\ NumCalls <= 1
        /\ Sleeps = <<>> /\ req.pc # "sleep"
        /\ RequestDone => NumCalls = 1 /\ Len(Outcomes) = 1
        /\ req.pc = "returned" => req.result.retries = 0

\* max_retries = 0 and a first answer of 503, a retryable status: it is
\* recorded at once.
C19_Witness ==
    /\ call.fn = "run_single_http_test"
    /\ call.retry_config.given /\ Policy.max_retries = 0
    /\ 503 \in Policy.retry_statuses
    /\ Outcomes = <<Took(Returned(Resp("status_code", 503)), 1)>>
    /\ req.pc = "returned"
    /\ req.result.status = 503 /\ req.result.retries = 0

\* The latest attempt of logical request i ended in an exception that is
\* not a transport error.
Unexpected(i) == seen[i] = Exc("ValueError")

(* C20: an unexpected exception raised inside one worker/task becomes a     *)
(* record with status = 0, passed = false, retries = 0 and an error         *)
(* string, and does not abort the dispatch: every request of the run is     *)
(* still executed and recorded.                                             *)

C20_UnexpectedExceptionCaptured ==
    Dispatching =>
        /\ mainpc # "raised"
        /\ \A i \in DOMAIN tasks :
              (Finished(tasks[i]) /\ Unexpected(i)) =>
                 LET record == Collected(run.mode, tasks[i]).record
                 IN  /\ record.status = 0
                     /\ record.passed = FALSE
                     /\ record.retries = 0
                     /\ "error" \in DOMAIN record
        /\ mainpc = "done" =>
              stats.invoked = run.repeat /\ Len(results) = run.repeat

-----------------------------------------------------------------------------
\* The dispatch has been cancelled: the interrupt has reached the dispatching
\* thread / coroutine.
Cancelled == mainpc \in {"interrupted", "cancelled"}

(* C21: once a dispatch is cancelled, no further attempt is started, and    *)
(* no attempt in flight at the cancellation is cut short: it ends by its    *)
(* response or its error.                                                   *)

C21_CancelDrains ==
    [][/\ Cancelled => stats'.issued = stats.issued
       /\ Cancelled' =>
            \A i \in DOMAIN tasks :
                tasks[i].pc = "call" => tasks'[i].pc # "cancelled"]_vars

(* C22: in both dispatchers records enter `results` in completion order:    *)
(* each record appended is that of the request that finished first among    *)
(* those not yet collected.                                                 *)

C22_CompletionOrder ==
    [][Len(results') > Len(results) => done_q' = Tail(done_q)]_vars

\* Tasks inside `async with semaphore`.
Gated == {i \in DOMAIN tasks : Holding(tasks[i])}

(* C23: in the async dispatcher the slots taken from the semaphore are, in  *)
(* every state, as many as the tasks inside the gated section, whichever    *)
(* way tasks leave it (return, exception, cancellation); when the dispatch  *)
(* has ended, by completion or by cancellation, all `concurrency` slots     *)
(* are free.                                                                *)

C23_SlotsReleased ==
    (Dispatching /\ run.mode = "async") =>
        /\ Concurrency(run) - slots = Cardinality(Gated)
        /\ mainpc \in {"done", "cancelled"} => slots = Concurrency(run)

\* A cancelled dispatch: one task had returned, another was cancelled inside
\* the gated section, after a retry.
C23_Witness ==
    /\ run.mode = "async" /\ mainpc = "cancelled"
    /\ slots = Concurrency(run)
    /\ \E i, j \in DOMAIN tasks :
         /\ tasks[i].pc = "cancelled" /\ tasks[i].retries_attempted = 1
         /\ tasks[j].pc = "returned"

\* The function running was handed a retry policy.
HasPolicy ==
    \/ call.fn \in RetryFns
    \/ call.fn \in ExecFns /\ call.retry_config.given

(* C24: a retry policy with max_retries < 0 is refused when it is           *)
(* constructed, so no function ever runs under one: with such a policy no   *)
(* request is issued, no outcome is seen and no sleep is taken.             *)

C24_NegativeRejected ==
    (HasPolicy /\ Policy.max_retries < 0) => log = <<>>

\* The statistics the summary dict is to carry.
SummaryFields ==
    {"total", "passed", "failed", "min_ms", "avg_ms", "max_ms",
     "wall_time_sec", "rps", "total_retries", "avg_retries_per_request"}

(* C25: in every mode, 'async' included, a completed run_performance_test   *)
(* returns the summary dict, and that dict carries total, passed, failed,   *)
(* min/avg/max, wall_time_sec, rps, total_retries and                       *)
(* avg_retries_per_request.                                                 *)

C25_ReturnsSummary ==
    mainpc = "done" =>
        /\ returned = "summary"
        /\ SummaryFields \subseteq DOMAIN summary

\* The server of the dispatch is deterministic.
Deterministic == run.server # NoOutcome

\* One logical request of dispatch r run on its own, from frame f to its end,
\* against r's deterministic server.
RECURSIVE Settle(_, _)
Settle(r, f) ==
    LET g == blocked(f, 1)
    IN  IF f.pc = "call"
        THEN Settle(r, worker(r.mode,
                 CASE r.mode = "sync" /\ r.server.kind = "resp" ->
                          sync_on_return(r.test, r.retry_config, g, r.server)
                   [] r.mode = "sync" /\ r.server.kind = "exc" ->
                          sync_on_raise(r.retry_config, g, r.server)
                   [] r.mode = "async" /\ r.server.kind = "resp" ->
                          async_on_return(r.test, r.retry_config, g, r.server)
                   [] OTHER ->
                          async_on_raise(r.retry_config, g, r.server)))
        ELSE IF f.pc = "sleep"
        THEN Settle(r, worker(r.mode, exec_wake(r.retry_config, f)))
        ELSE f

\* Whether that request passes.
PassesAlone(r) ==
    Collected(r.mode, Settle(r, exec_begin(r.retry_config, exec_frame))).record.passed

(* C26: against a deterministic server the passed and failed counts of a    *)
(* completed run are determined by the test, the retry policy, repeat and   *)
(* concurrency: whatever the interleaving of the workers / tasks, they are  *)
(* the counts of `repeat` requests run one by one, so two runs agree.       *)

C26_CountsDeterministic ==
    (mainpc = "done" /\ Deterministic) =>
        /\ summary.passed = (IF PassesAlone(run) THEN run.repeat ELSE 0)
        /\ summary.failed = (IF PassesAlone(run) THEN 0 ELSE run.repeat)

\* A completed run of two overlapping tasks, each retried once.
C26_Witness ==
    /\ mainpc = "done" /\ Deterministic
    /\ run.repeat = 2 /\ Concurrency(run) = 2
    /\ \A i \in DOMAIN tasks : tasks[i].retries_attempted = 1
    /\ summary.failed = 2

\* The validator runs of the log, and the response the function kept: the
\* one its last request returned.
IsValidate(e) == e.ev = "validate"
Validations == SelectSeq(log, IsValidate)
KeptResponse ==
    /\ call.fn \in ExecFns /\ RequestDone
    /\ Outcomes # <<>> /\ Outcomes[Len(Outcomes)].ev = "return"

\* How many validators an in-order evaluation that stops at the first
\* validator not returning true looks at.
EvaluatedInOrder(validators, response) ==
    LET stop == {k \in 1..Len(validators) : Verdict(validators[k], response) # "true"}
    IN  IF stop = {} THEN Len(validators)
        ELSE CHOOSE k \in stop : \A j \in stop : k <= j

(* C27: an executor that keeps a response of a test with validators runs    *)
(* the validators exactly once, after its last request and on the response  *)
(* kept, never on a response it retried; it evaluates them in order and     *)
(* stops at the first that does not return true.                            *)

C27_ValidatorsOnceOnKept ==
    (KeptResponse /\ call.test.validators # <<>>) =>
        /\ Len(Validations) = 1
        /\ log[Len(log)] = Validations[1]
        /\ Validations[1].out = Outcomes[Len(Outcomes)].out
        /\ Validations[1].n =
               EvaluatedInOrder(call.test.validators, Validations[1].out)

\* Logical request i kept a response and a validator raised on it.
ValidatorRaised(i) ==
    /\ Finished(tasks[i]) /\ seen[i].kind = "resp"
    /\ tasks[i].validated > 0
    /\ Verdict(run.test.validators[tasks[i].validated], seen[i]) = "raise"

(* C28: when a validator raises on the kept response, the request's record  *)
(* has passed = false, names the validator in an error entry, and keeps     *)
(* the status of the response and the retries performed before it.          *)

C28_ValidatorErrorRecorded ==
    (Dispatching /\ run.mode = "sync") =>
        \A i \in DOMAIN tasks :
            ValidatorRaised(i) =>
                /\ ~tasks[i].result.passed
                /\ "error" \in DOMAIN tasks[i].result
                /\ tasks[i].result.status = seen[i].status
                /\ tasks[i].result.retries = tasks[i].retries_attempted

\* The policy in force deems exception e retryable: its type is in
\* retry_exceptions.
PolicyRetries(e) == HasPolicy /\ e.exc \in Policy.retry_exceptions

(* C29: in both executors a transport error whose kind the retry policy     *)
(* does not hold retryable ends the logical request at once: it is the      *)
(* last thing the request meets, no request and no sleep follows it, and    *)
(* if a record is returned it has passed = false.                           *)

C29_OnlyRetryableErrorsRetried ==
    call.fn \in ExecFns =>
        \A k \in 1..Len(log) :
            (log[k].ev = "raise" /\ ~PolicyRetries(log[k].out)) =>
                /\ k = Len(log)
                /\ RequestDone
                /\ req.pc = "returned" => ~req.result.passed

\* Every request of the dispatch meets a transport error, and the executor
\* retries.
ErrorPersists ==
    /\ Dispatching /\ run.server = Exc("RequestException")
    /\ UsesRetry(run.retry_config)

(* C30: when the transport error persists through all max_retries retries   *)
(* of a request, its record has passed = false and retries = max_retries,   *)
(* in both dispatchers, and the summary of the completed run counts them:   *)
(* total_retries = repeat * max_retries.                                    *)

C30_ExhaustedRetriesReported ==
    ErrorPersists =>
        /\ \A i \in DOMAIN tasks :
               Finished(tasks[i]) =>
                   /\ ~tasks[i].result.passed
                   /\ tasks[i].result.retries = run.retry_config.value.max_retries
        /\ mainpc = "done" =>
               summary.total_retries = run.repeat * run.retry_config.value.max_retries

-----------------------------------------------------------------------------
\* Records that took longer than t.
Exceeding(rs, t) == Cardinality({i \in 1..Len(rs) : rs[i].elapsed_ms > t})

(* C31: in both modes, a summary computed under a threshold, a threshold of *)
(* 0 included, has the entry threshold_exceeded, equal to the number of     *)
(* records with elapsed_ms > threshold_ms; a summary computed without a     *)
(* threshold has no such entry.                                             *)

C31_ThresholdExceeded ==
    stat.op = "summarized" =>
        IF stat.run.threshold_ms.given
        THEN /\ "threshold_exceeded" \in DOMAIN stat.summary
             /\ stat.summary.threshold_exceeded =
                    Exceeding(stat.results, stat.run.threshold_ms.value)
        ELSE "threshold_exceeded" \notin DOMAIN stat.summary

(* C32: for every non-empty list of elapsed times and every requested p in  *)
(* [0, 100], the percentile in the summary of either dispatcher is the      *)
(* value benchmarks.percentile computes on the same times; for p = 0 it is  *)
(* the least and for p = 100 the greatest elapsed time.                     *)

C32_PercentileMatchesReference ==
    (stat.op = "summarized" /\ stat.results # <<>>) =>
        \A p \in DOMAIN stat.summary.pct :
            /\ stat.summary.pct[p] = benchmarks_percentile(Times(stat.results), p)
            /\ p = 0 => stat.summary.pct[p] = stat.summary.min_ms * One
            /\ p = 100 => stat.summary.pct[p] = stat.summary.max_ms * One

\* p50 of three times: k is the whole number 1, short of the last index,
\* where _percentile interpolates with weights 1 and 0 and the reference
\* reads the element.
C32_Witness ==
    /\ stat.op = "summarized"
    /\ Times(stat.results) = <<3, 1, 2>>
    /\ 50 \in DOMAIN stat.summary.pct
    /\ stat.summary.pct[50] = 2 * One

\* The request of task j is answered, by a response or by an error, and the
\* task goes on from there.
Proceeds(j) == (TaskResponse \/ TaskError) /\ tasks'[j] # tasks[j]

(* C33: in the async dispatcher, while a task is in its backoff sleep,      *)
(* every other task that holds a slot and has a request in flight can       *)
(* receive its answer and go on.                                            *)

C33_BackoffSuspendsOnlySleeper ==
    (Dispatching /\ run.mode = "async") =>
        \A i, j \in DOMAIN tasks :
            (tasks[i].pc = "sleep" /\ tasks[j].pc = "call") => ENABLED Proceeds(j)

\* One task asleep after a retry, another with its request in flight.
C33_Witness ==
    /\ run.mode = "async" /\ mainpc = "collect"
    /\ \E i, j \in DOMAIN tasks :
         /\ tasks[i].pc = "sleep" /\ tasks[i].retries_attempted = 1
         /\ tasks[j].pc = "call"

(* C34: a run asked for a mode other than 'sync' and 'async' issues no      *)
(* request, and a run that issues requests runs in the mode asked for.      *)

C34_UnknownModeRejected ==
    (Dispatching /\ run.requested.given /\ stats.issued > 0) =>
        /\ run.requested.value \in KnownModes
        /\ run.mode = run.requested.value

(* C35: no step of a dispatch changes the test, the retry configuration or  *)
(* the performance settings, and all the attempts of the run, first tries   *)
(* and retries of every task, are issued with one and the same method,      *)
(* url, headers and body.                                                   *)

C35_DefinitionsUnchanged ==
    [][/\ run' = run
       /\ Cardinality(stats'.sent) <= 1]_vars

\* A finished run of a POST with headers and a body in which a request was
\* retried.
C35_Witness ==
    /\ mainpc = "done" /\ run.test.method = "POST"
    /\ stats.issued > stats.invoked
    /\ Cardinality(stats.sent) = 1

\* The retries a policy allows: none without a policy.
AllowedRetries(r) ==
    IF r.retry_config.given THEN r.retry_config.value.max_retries ELSE 0

\* The dispatch is over without having been interrupted, every task has
\* had its slot and every record is in `results`.
AllCollected ==
    /\ mainpc = "done"
    /\ \A i \in TaskIds(run) : Finished(tasks[i])
    /\ Len(results) = run.repeat

(* C36: under a policy with max_retries >= 0 (or none), whatever mix of     *)
(* statuses and errors answers the attempts, a dispatch whose every attempt *)
(* is answered ends with every task run and every record collected, each    *)
(* logical request having made at most max_retries + 1 attempts and the     *)
(* dispatch at most repeat * (max_retries + 1).                             *)

C36_BoundedAndTerminates ==
    <>(/\ AllCollected
       /\ \A i \in TaskIds(run) : tasks[i].attempt + 1 <= AllowedRetries(run) + 1
       /\ stats.issued <= run.repeat * (AllowedRetries(run) + 1))

\* A finished run of MaxRepeat requests that used every attempt it had,
\* one request answered by a response at last and another by an error.
C36_Witness ==
    /\ AllCollected /\ run.repeat = MaxRepeat
    /\ AllowedRetries(run) = MaxDispatchRetries
    /\ stats.issued = run.repeat * (AllowedRetries(run) + 1)
    /\ \E i, j \in TaskIds(run) : seen[i].kind = "resp" /\ seen[j].kind = "exc"

\* The executor that is not fn, and a response of its transport.
OtherExec(fn) ==
    IF fn = "run_single_http_test" THEN "async_single_request"
    ELSE "run_single_http_test"
ExecResp(fn, status) ==
    Resp(IF fn = "run_single_http_test" THEN "status_code" ELSE "status", status)

\* Executor fn run from frame f, its successive requests answered by the
\* statuses of `answers`: the frame it ends in (or waits in, when the answers
\* run out), the requests it issued and the delays it slept.
RECURSIVE Replay(_, _, _, _, _, _, _)
Replay(fn, test, retry_config, f, answers, issued, delays) ==
    IF f.pc = "call" /\ answers # <<>>
    THEN LET g == blocked(f, 1)
             response == ExecResp(fn, Head(answers))
         IN  Replay(fn, test, retry_config,
                    IF fn = "run_single_http_test"
                    THEN sync_on_return(test, retry_config, g, response)
                    ELSE async_on_return(test, retry_config, g, response),
                    Tail(answers), issued, delays)
    ELSE IF f.pc = "sleep"
    THEN LET g == exec_wake(retry_config, f)
         IN  Replay(fn, test, retry_config, g, answers,
                    issued + (IF g.pc = "call" THEN 1 ELSE 0),
                    Append(delays, f.delay))
    ELSE [frame |-> f, issued |-> issued, delays |-> delays]

\* The statuses that answered the requests of the call, in order, and the
\* delays it slept.
StatusesSeen == [k \in 1..Len(Outcomes) |-> Outcomes[k].out.status]
DelaysSlept == [k \in 1..Len(Sleeps) |-> Sleeps[k].delay]

\* An executor has finished and every request of it was answered by a
\* response.
ExecDoneOnResponses ==
    /\ call.fn \in ExecFns /\ RequestDone
    /\ \A k \in 1..Len(Outcomes) : Outcomes[k].out.kind = "resp"

(* C37: given the same test, the same retry configuration and the same      *)
(* statuses in answer to its requests, the other executor issues as many    *)
(* requests, sleeps the same delays and returns a record with the same      *)
(* status and the same retries.                                             *)

C37_ExecutorsAgree ==
    ExecDoneOnResponses =>
        LET other == Replay(OtherExec(call.fn), call.test, call.retry_config,
                            exec_begin(call.retry_config, exec_frame),
                            StatusesSeen, 1, <<>>)
        IN  /\ other.issued = NumCalls
            /\ other.delays = DelaysSlept
            /\ req.pc = "returned" /\ other.frame.pc = "returned"
            /\ other.frame.result.status = req.result.status
            /\ other.frame.result.retries = req.result.retries

\* A call of retry_sync / retry_async is over.
RetryDone == call.fn \in RetryFns /\ RequestDone

(* C38: with max_retries >= 0, retry_sync and retry_async end with the      *)
(* outcome of the last call of func, returning its response or raising its  *)
(* exception, and no sleep is followed by the code after the loop; with     *)
(* max_retries < 0 func is never called and None is returned.               *)

C38_LastCallDecides ==
    call.fn \in RetryFns =>
        IF call.config.max_retries >= 0
        THEN /\ req.pc = "sleep" => req.attempt < call.config.max_retries
             /\ RequestDone =>
                   /\ Outcomes # <<>>
                   /\ req.result = Outcomes[Len(Outcomes)].out
                   /\ req.pc = "returned" <=> req.result.kind = "resp"
        ELSE RequestDone =>
                   /\ NumCalls = 0
                   /\ req.pc = "returned" /\ req.result = NoOutcome

\* A call that used every attempt: a response first, retried, and an
\* exception at the last call, which is raised.
C38_Witness ==
    /\ RetryDone /\ call.config.max_retries = MaxRetries
    /\ NumCalls = MaxRetries + 1
    /\ Outcomes[1].out.kind = "resp"
    /\ Outcomes[Len(Outcomes)].out.kind = "exc"
    /\ req.pc = "raised"

\* The first outcome of the call was `out`, its policy allows a retry, and
\* the function has acted on it.
FirstOutcomeWas(out) ==
    /\ call.config.max_retries > 0
    /\ Len(log) >= 2 /\ log[2].ev \in {"return", "raise"} /\ log[2].out = out

(* C39: a RetryConfig given an empty retry_statuses has the default         *)
(* statuses 500, 502, 503, 504, so should_retry(500, config) holds and a    *)
(* 500 is retried; given an empty retry_exceptions it has the default       *)
(* exceptions ConnectionError and TimeoutError, and they are retried.       *)

C39_EmptyFallsBackToDefaults ==
    call.fn \in RetryFns =>
        /\ call.statuses_arg = Some({}) =>
              /\ call.config.retry_statuses = {500, 502, 503, 504}
              /\ should_retry(500, call.config)
              /\ FirstOutcomeWas(Resp(StatusAttr(call.fn), 500)) => log[3].ev = "sleep"
        /\ call.exceptions_arg = Some({}) =>
              /\ call.config.retry_exceptions = {"ConnectionError", "TimeoutError"}
              /\ \A e \in call.config.retry_exceptions :
                    FirstOutcomeWas(Exc(e)) => log[3].ev = "sleep"

\* Both collections given empty: a 500 was retried, then a TimeoutError.
C39_Witness ==
    /\ call.fn = "retry_async"
    /\ call.statuses_arg = Some({}) /\ call.exceptions_arg = Some({})
    /\ FirstOutcomeWas(Resp("status", 500))
    /\ Len(Outcomes) >= 2 /\ Outcomes[2].out = Exc("TimeoutError")
    /\ Len(Sleeps) = 2

\* Task j acquires the semaphore and issues its first request.
Starts(j) == StartTask /\ tasks'[j] # tasks[j]

(* C40: in the async dispatcher a task keeps its slot from its first        *)
(* request to its end, backoff sleeps and retries included: the tasks in    *)
(* flight or in backoff are never more than `concurrency`, and while they   *)
(* are `concurrency` no waiting task can start its first attempt.           *)

C40_SlotHeldThroughBackoff ==
    (Dispatching /\ run.mode = "async") =>
        /\ Cardinality(Gated) <= Concurrency(run)
        /\ Cardinality(Gated) = Concurrency(run) =>
              \A j \in DOMAIN tasks : tasks[j].pc = "start" => ~ENABLED Starts(j)

\* Every slot is held, one of them by a task asleep after a retry, and a
\* task is waiting.
C40_Witness ==
    /\ run.mode = "async" /\ mainpc = "collect"
    /\ Cardinality(Gated) = Concurrency(run)
    /\ \E i, j \in DOMAIN tasks :
         /\ tasks[i].pc = "sleep" /\ tasks[i].retries_attempted = 1
         /\ tasks[j].pc = "start"

====
